---- MODULE Spec2Model ----
(***************************************************************************)
(* Airspace Copilot: the file-backed snapshot store and cross-region       *)
(* locator (mcp-server/server.py), the metrics and anomaly engine          *)
(* (agents/ops_agent.py), the traveler helper (agents/traveler_agent.py)   *)
(* and the two-stage pipeline (agents/crew_runner.py).                     *)
(*                                                                         *)
(* Conventions.  A Python str is a sequence of one-character strings.      *)
(* An optional value (a missing key, JSON null, Python None) is the empty  *)
(* tuple None; a present value v is the one-element tuple Some(v).         *)
(* dict.get(key) of a missing key and of a null value both give None, and  *)
(* the code reads every field through .get, so the two are one case.       *)
(* Floats are integers (the thresholds only compare).                      *)
(***************************************************************************)
EXTENDS Integers, Sequences, FiniteSets, TLC

VARIABLES
    store,      \* DATA_SNAPSHOT_DIR: region id -> content of <region>.json
    alertsFile, \* ALERTS_FILE: content of alerts.json
    lookup,     \* the last request served by the MCP server and its outcome
    engineIn,   \* the states handed to the anomaly engine
    engineOut,  \* what the engine returned for engineIn
    compactIn,  \* the arguments handed to a compaction helper
    compactOut, \* what the helper returned and what its node then kept
    graph,      \* the lru_cache slot of build_graph: None or the compiled graph
    inv,        \* run -> the arguments of its run_crewai call
    node,       \* run -> the graph node the run is at
    phase,      \* run -> position inside the node (around its blocking calls)
    cur,        \* run -> reference of the GraphState object the run holds
    heap,       \* reference -> GraphState dict (Python objects by identity)
    locals,     \* run -> local variables of the node being executed
    outcome,    \* run -> "idle", "running", "returned" or "raised"
    result,     \* run -> the dict run_crewai returned
    trace,      \* run -> the stage events of the run, in order
    handed,     \* the (reference, value) pairs given to a node as its input
    calls       \* run -> the blocking external calls it made, with outcomes

vars == <<store, alertsFile, lookup, engineIn, engineOut, compactIn,
          compactOut, graph, inv, node, phase, cur, heap, locals, outcome,
          result, trace, handed, calls>>

storeVars == <<store, alertsFile>>
serverVars == <<lookup>>
engineVars == <<engineIn, engineOut>>
compactVars == <<compactIn, compactOut>>
pipeVars == <<graph, inv, node, phase, cur, heap, locals, outcome, result,
              trace, handed, calls>>

(***************************************************************************)
(* Bounds of the model.                                                    *)
(***************************************************************************)
MaxStates == 2      \* flight states per stored snapshot

(***************************************************************************)
(* Python values.                                                          *)
(***************************************************************************)
None == <<>>
Some(v) == <<v>>

\* str.upper() on the alphabet of the model
UpperChar(c) ==
    CASE c = "a" -> "A"
      [] c = "b" -> "B"
      [] OTHER -> c

Upper(s) == [i \in 1..Len(s) |-> UpperChar(s[i])]

IsSpace(c) == c = " "

RECURSIVE LStrip(_)
LStrip(s) ==
    IF s # <<>> /\ IsSpace(Head(s)) THEN LStrip(Tail(s)) ELSE s

RECURSIVE RStrip(_)
RStrip(s) ==
    IF s # <<>> /\ IsSpace(s[Len(s)]) THEN RStrip(SubSeq(s, 1, Len(s) - 1)) ELSE s

\* str.strip()
Strip(s) == RStrip(LStrip(s))

\* truthiness of an optional str: None and "" are falsy
TruthyStr(o) == o # None /\ o[1] # <<>>

\* truthiness of an optional number: None and 0 are falsy
TruthyNum(o) == o # None /\ o[1] # 0

\* truthiness of an optional bool
TruthyBool(o) == o # None /\ o[1]

\* code point of a character of a region id
Code(c) ==
    CASE c = "0" -> 48
      [] c = "1" -> 49
      [] c = "2" -> 50
      [] c = "r" -> 114
      [] OTHER -> 0

\* Python's str < str: lexicographic by code point, a proper prefix is smaller
RECURSIVE StrLess(_, _)
StrLess(a, b) ==
    IF b = <<>> THEN FALSE
    ELSE IF a = <<>> THEN TRUE
    ELSE IF Code(Head(a)) # Code(Head(b)) THEN Code(Head(a)) < Code(Head(b))
    ELSE StrLess(Tail(a), Tail(b))

(***************************************************************************)
(* Flight states and stored contents.                                      *)
(***************************************************************************)
\* the fields of FlightState the code reads
BaseState ==
    [icao24 |-> Some(<<"c">>), callsign |-> Some(<<"A">>),
     time_position |-> Some(100), last_contact |-> Some(100),
     longitude |-> Some(5), latitude |-> Some(5),
     baro_altitude |-> Some(1000), on_ground |-> Some(FALSE),
     velocity |-> Some(100), geo_altitude |-> Some(1000)]

\* "r10" sorts before "r2" as a str, after it as a number
RegionIds == {<<"r", "1", "0">>, <<"r", "2">>}

\* the sequences over S of length at most n
SeqUpTo(S, n) == UNION {[1..k -> S] : k \in 0..n}

NoFile == [kind |-> "nofile"]
BadJson == [kind |-> "badjson"]        \* json.loads raises JSONDecodeError
NonObject == [kind |-> "nonobject"]    \* valid JSON that is no object, as []

\* a JSON object; states None: the object has no "states" key
Object(states, last_updated, bounds) ==
    [kind |-> "object", states |-> states, last_updated |-> last_updated,
     bounds |-> bounds]

Snapshot(states) == Object(Some(states), Some(<<"t">>), Some("box"))

\* the object {}: valid JSON, none of the fields of a Region Snapshot
EmptyObject == Object(None, None, None)

(***************************************************************************)
(* Outcomes of a call: a returned value or a raised error that carries the *)
(* HTTP status it surfaces as (an unhandled exception inside a FastAPI     *)
(* endpoint is answered with status 500).                                  *)
(***************************************************************************)
Ok(v) == [kind |-> "ok", value |-> v]
Raise(status) == [kind |-> "raise", status |-> status]

(***************************************************************************)
(* mcp-server/server.py                                                    *)
(***************************************************************************)
\* path.exists() / json.loads of the region's file
_load_snapshot(st, region) ==
    IF st[region].kind = "nofile" THEN Raise(404)
    ELSE IF st[region].kind = "badjson" THEN Raise(500)
    ELSE Ok(st[region])

\* sorted(...): the ascending sequence of a finite set of str
RECURSIVE Sorted(_)
Sorted(S) ==
    IF S = {} THEN <<>>
    ELSE LET m == CHOOSE x \in S : \A y \in S \ {x} : StrLess(x, y)
         IN  <<m>> \o Sorted(S \ {m})

\* the same set in descending order (a listing that is not sorted ascending)
RECURSIVE SortedDescending(_)
SortedDescending(S) ==
    IF S = {} THEN <<>>
    ELSE LET m == CHOOSE x \in S : \A y \in S \ {x} : StrLess(y, x)
         IN  <<m>> \o SortedDescending(S \ {m})

_list_regions_unsorted(st) ==
    SortedDescending({r \in DOMAIN st : st[r].kind # "nofile"})

\* sorted(p.stem for p in DATA_SNAPSHOT_DIR.glob("*.json"))
_list_regions(st) ==
    Sorted({r \in DOMAIN st : st[r].kind # "nofile"})

\* callsign.strip().upper()
Normalize(s) == Upper(Strip(s))

\* (state.get("callsign") or "").strip().upper()
StateCallsign(state) ==
    Normalize(IF TruthyStr(state.callsign) THEN state.callsign[1] ELSE <<>>)

\* the inner loop of _find_by_callsign: the index of the first state of
\* `states`, from i on, whose normalized callsign is `normalized`; 0 if none
RECURSIVE FirstMatch(_, _, _)
FirstMatch(states, i, normalized) ==
    IF i > Len(states) THEN 0
    ELSE IF StateCallsign(states[i]) = normalized THEN i
    ELSE FirstMatch(states, i + 1, normalized)

\* the outer loop of _find_by_callsign over regions[i..]
RECURSIVE ScanRegions(_, _, _, _)
ScanRegions(st, regions, i, normalized) ==
    IF i > Len(regions) THEN Ok(None)
    ELSE
        LET region == regions[i]
            loaded == _load_snapshot(st, region)
        IN  IF loaded.kind = "raise" THEN loaded
            ELSE IF loaded.value.kind = "nonobject"
                 THEN Raise(500)  \* snapshot.get: AttributeError
            ELSE
                LET snapshot == loaded.value
                    \* snapshot.get("states", [])
                    states == IF snapshot.states = None THEN <<>>
                              ELSE snapshot.states[1]
                    k == FirstMatch(states, 1, normalized)
                IN  IF k # 0
                    THEN Ok(Some([region |-> region, snapshot |-> snapshot,
                                  state |-> states[k]]))
                    ELSE ScanRegions(st, regions, i + 1, normalized)

_find_by_callsign(st, callsign) ==
    ScanRegions(st, _list_regions(st), 1, Normalize(callsign))

\* FlightState(**state): icao24 is the one required str
ValidState(state) == state.icao24 # None

\* SnapshotResponse(**data) validates
ValidSnapshot(data) ==
    /\ data.kind = "object"
    /\ data.states # None
    /\ data.last_updated # None
    /\ data.bounds # None
    /\ \A i \in 1..Len(data.states[1]) : ValidState(data.states[1][i])

\* GET /flights/region/{region}
get_region_snapshot(st, region) ==
    LET data == _load_snapshot(st, region)
    IN  IF data.kind = "raise" THEN [status |-> data.status]
        ELSE IF ~ValidSnapshot(data.value) THEN [status |-> 500]
        ELSE [status |-> 200, body |-> data.value]

\* GET /flights/callsign/{callsign}
get_flight_by_callsign(st, callsign) ==
    LET found == _find_by_callsign(st, callsign)
    IN  IF found.kind = "raise" THEN [status |-> found.status]
        ELSE IF found.value = None THEN [status |-> 404]
        ELSE [status |-> 200, body |-> found.value[1]]

\* _load_alerts and AlertsResponse(**...) behind GET /alerts
list_alerts(af) ==
    IF af.kind = "nofile"
    THEN [status |-> 200, body |-> [last_updated |-> <<>>, alerts |-> <<>>]]
    ELSE IF af.kind = "badjson" THEN [status |-> 500]
    ELSE [status |-> 200, body |-> [last_updated |-> af.last_updated,
                                    alerts |-> af.alerts]]

(***************************************************************************)
(* The MCP server as a state machine: a store the ingestion job left       *)
(* behind, and one action per endpoint.                                    *)
(***************************************************************************)
LocCallsigns == {None, Some(<<"a", " ">>), Some(<<"B">>)}

LocStates == {[BaseState EXCEPT !.callsign = c] : c \in LocCallsigns}

LocContents ==
    {NoFile, BadJson, NonObject, EmptyObject}
        \cup {Snapshot(s) : s \in SeqUpTo(LocStates, MaxStates)}

\* the callsigns clients ask for
Queries ==
    {<<>>, <<" ">>, <<"a">>, <<"A">>, <<" ", "a">>, <<"A", " ">>,
     <<" ", "A", " ">>, <<"b">>, <<"B", " ">>, <<"a", "b">>}

Runs == {1, 2}

PipeIdle ==
    /\ graph = None
    /\ inv = [i \in Runs |-> None]
    /\ node = [i \in Runs |-> "none"]
    /\ phase = [i \in Runs |-> "none"]
    /\ cur = [i \in Runs |-> None]
    /\ heap = <<>>
    /\ locals = [i \in Runs |-> None]
    /\ outcome = [i \in Runs |-> "idle"]
    /\ result = [i \in Runs |-> None]
    /\ trace = [i \in Runs |-> <<>>]
    /\ handed = {}
    /\ calls = [i \in Runs |-> <<>>]

EngineIdle ==
    /\ engineIn = <<>>
    /\ engineOut = None

CompactIdle ==
    /\ compactIn = None
    /\ compactOut = None

InitLocator ==
    /\ store \in [RegionIds -> LocContents]
    /\ alertsFile = NoFile
    /\ lookup = [op |-> "none"]
    /\ EngineIdle
    /\ CompactIdle
    /\ PipeIdle

\* GET /flights/callsign/{callsign}
FindByCallsign(callsign) ==
    /\ lookup' = [op |-> "find_by_callsign", arg |-> callsign,
                  found |-> _find_by_callsign(store, callsign),
                  response |-> get_flight_by_callsign(store, callsign)]
    /\ UNCHANGED <<storeVars, engineVars, compactVars, pipeVars>>

\* GET /flights/region/{region}
GetRegionSnapshot(region) ==
    /\ lookup' = [op |-> "get_region_snapshot", arg |-> region,
                  response |-> get_region_snapshot(store, region)]
    /\ UNCHANGED <<storeVars, engineVars, compactVars, pipeVars>>

\* GET /flights/regions
ListRegions ==
    /\ lookup' = [op |-> "list_regions",
                  response |-> [status |-> 200, body |-> _list_regions(store)]]
    /\ UNCHANGED <<storeVars, engineVars, compactVars, pipeVars>>

NextLocator ==
    \/ \E q \in Queries : FindByCallsign(q)
    \/ \E r \in RegionIds : GetRegionSnapshot(r)
    \/ ListRegions

SpecLocator == InitLocator /\ [][NextLocator]_vars

(***************************************************************************)
(* Claims about the locator and the store.                                 *)
(***************************************************************************)
AllSpaces(s) == \A i \in 1..Len(s) : s[i] = " "

\* s without its surrounding whitespace, stated by what it is
Trimmed(s) ==
    LET cuts == {p \in (1..(Len(s) + 1)) \X (0..Len(s)) :
                    /\ p[1] <= p[2] + 1
                    /\ AllSpaces(SubSeq(s, 1, p[1] - 1))
                    /\ AllSpaces(SubSeq(s, p[2] + 1, Len(s)))
                    /\ p[1] <= p[2] => s[p[1]] # " " /\ s[p[2]] # " "}
        p == CHOOSE q \in cuts : TRUE
    IN  SubSeq(s, p[1], p[2])

\* the callsign a query or a state stands for: trimmed, upper case
Canon(s) == LET t == Trimmed(s) IN [i \in 1..Len(t) |-> UpperChar(t[i])]

CanonOfState(state) ==
    IF state.callsign = None THEN <<>> ELSE Canon(state.callsign[1])

\* the states a stored object offers to the scan
StatesOf(content) ==
    IF content.kind = "object" /\ content.states # None
    THEN content.states[1] ELSE <<>>

\* the regions with a file that holds a state standing for callsign n
RegionsWith(n) ==
    {r \in RegionIds :
        /\ store[r].kind # "nofile"
        /\ \E i \in 1..Len(StatesOf(store[r])) :
              CanonOfState(StatesOf(store[r])[i]) = n}

IllFormed(content) == content.kind # "nofile" /\ ~ValidSnapshot(content)

\* the regions a completed scan has read
ScannedRegions(found) ==
    {r \in RegionIds :
        /\ store[r].kind # "nofile"
        /\ found.value # None =>
              (r = found.value[1].region \/ StrLess(r, found.value[1].region))}

\* C7: a request that reads a file whose content is not a well-formed
\* Region Snapshot fails: get_snapshot answers with an error, and a
\* find_by_callsign that scanned it does not return.
C7_CorruptNeverDefaulted ==
    /\ (lookup.op = "get_region_snapshot" /\ IllFormed(store[lookup.arg]))
          => lookup.response.status # 200
    /\ (lookup.op = "find_by_callsign" /\ lookup.found.kind = "ok")
          => \A r \in ScannedRegions(lookup.found) : ~IllFormed(store[r])

(***************************************************************************)
(* agents/mcp_client.py                                                    *)
(***************************************************************************)
\* resp.raise_for_status(); return resp.json()
RaiseForStatus(resp) ==
    IF resp.status >= 400 THEN Raise(resp.status) ELSE Ok(resp.body)

\* MCPClient.list_region_snapshot
client_list_region_snapshot(st, region) ==
    RaiseForStatus(get_region_snapshot(st, region))

\* MCPClient.find_by_callsign
client_find_by_callsign(st, callsign) ==
    RaiseForStatus(get_flight_by_callsign(st, callsign))

\* MCPClient.list_alerts
client_list_alerts(af) == RaiseForStatus(list_alerts(af))

(***************************************************************************)
(* agents/ops_agent.py                                                     *)
(***************************************************************************)
HighVelocityLimit == 280
LowAltitudeLimit == 300
StaleLatencyLimit == 45

UNKNOWN == <<"U", "N", "K", "N", "O", "W", "N">>

Anomaly(callsign, issue, value) ==
    [callsign |-> callsign, issue |-> issue, value |-> value]

\* (state.get("callsign") or state.get("icao24") or "UNKNOWN").strip()
AnomalyCallsign(state) ==
    Strip(IF TruthyStr(state.callsign) THEN state.callsign[1]
          ELSE IF TruthyStr(state.icao24) THEN state.icao24[1]
          ELSE UNKNOWN)

\* if state.get("velocity") and state["velocity"] > 280
HighVelocityRule(state) ==
    TruthyNum(state.velocity) /\ state.velocity[1] > HighVelocityLimit

\* if state.get("baro_altitude") is not None and state["baro_altitude"] < 300
LowAltitudeRule(state) ==
    state.baro_altitude # None /\ state.baro_altitude[1] < LowAltitudeLimit

\* if state.get("last_contact") and state.get("time_position"):
\*     latency = ...; if latency > 45
StaleTelemetryRule(state) ==
    /\ TruthyNum(state.last_contact)
    /\ TruthyNum(state.time_position)
    /\ state.last_contact[1] - state.time_position[1] > StaleLatencyLimit

\* if not state.get("latitude") or not state.get("longitude")
MissingCoordinatesRule(state) ==
    ~TruthyNum(state.latitude) \/ ~TruthyNum(state.longitude)

\* one pass of the loop body of _detect_anomalies: what one state appends
StateAnomalies(state) ==
    LET callsign == AnomalyCallsign(state)
    IN  (IF HighVelocityRule(state)
         THEN <<Anomaly(callsign, "High velocity", state.velocity[1])>>
         ELSE <<>>)
     \o (IF LowAltitudeRule(state)
         THEN <<Anomaly(callsign, "Low altitude", state.baro_altitude[1])>>
         ELSE <<>>)
     \o (IF StaleTelemetryRule(state)
         THEN <<Anomaly(callsign, "Stale telemetry",
                        state.last_contact[1] - state.time_position[1])>>
         ELSE <<>>)
     \o (IF MissingCoordinatesRule(state)
         THEN <<Anomaly(callsign, "Missing coordinates", "n/a")>>
         ELSE <<>>)

RECURSIVE Flatten(_)
Flatten(ss) == IF ss = <<>> THEN <<>> ELSE Head(ss) \o Flatten(Tail(ss))

\* OpsAnalystAgent._detect_anomalies
_detect_anomalies(states) ==
    Flatten([i \in 1..Len(states) |-> StateAnomalies(states[i])])

\* the values of a column that dropna() keeps
RECURSIVE DropNa(_, _)
DropNa(states, field) ==
    IF states = <<>> THEN <<>>
    ELSE (IF Head(states)[field] = None THEN <<>> ELSE <<Head(states)[field][1]>>)
            \o DropNa(Tail(states), field)

RECURSIVE Sum(_)
Sum(xs) == IF xs = <<>> THEN 0 ELSE Head(xs) + Sum(Tail(xs))

\* a float: a number in hundredths, or NaN
Num(hundredths) == [kind |-> "num", hundredths |-> hundredths]
NaN == [kind |-> "nan"]

\* round(series.dropna().mean(), 2): the mean of no value is NaN, and
\* round(nan, 2) is nan.  Rounded to the nearest hundredth (no mean of fewer
\* than eight integers lies halfway between two hundredths).
RoundedMean(xs) ==
    IF xs = <<>> THEN NaN
    ELSE LET n == Len(xs)
             total == Sum(xs)
         IN  Num(IF total >= 0
                 THEN (total * 200 + n) \div (2 * n)
                 ELSE -((-total * 200 + n) \div (2 * n)))

\* OpsAnalystAgent._compute_metrics(pd.DataFrame(states)).  The states come
\* from GET /flights/region/{region}, whose response model writes every
\* field of every state (null when unset), so both columns are in the frame
\* whenever the frame has a row.
_compute_metrics(states) ==
    IF states = <<>>
    THEN [aircraft |-> 0, avg_altitude |-> None, avg_velocity |-> None]
    ELSE [aircraft |-> Len(states),
          avg_altitude |-> Some(RoundedMean(DropNa(states, "geo_altitude"))),
          avg_velocity |-> Some(RoundedMean(DropNa(states, "velocity")))]

\* truthiness of a metric: None and 0.0 are falsy, nan is truthy
TruthyMetric(m) == m # None /\ m[1] # Num(0)

\* OpsAnalystAgent._build_summary: the sentences, in order
_build_summary(region, snapshot, metrics, anomalies) ==
    <<[sentence |-> "tracked", region |-> region,
       aircraft |-> metrics.aircraft, as_of |-> snapshot.last_updated]>>
     \o (IF TruthyMetric(metrics.avg_altitude)
         THEN <<[sentence |-> "avg_altitude", value |-> metrics.avg_altitude[1]]>>
         ELSE <<>>)
     \o (IF TruthyMetric(metrics.avg_velocity)
         THEN <<[sentence |-> "avg_velocity", value |-> metrics.avg_velocity[1]]>>
         ELSE <<>>)
     \o (IF anomalies # <<>>
         THEN <<[sentence |-> "anomalies", count |-> Len(anomalies)]>>
         ELSE <<[sentence |-> "no_anomalies"]>>)

\* OpsAnalystAgent.analyze_region
analyze_region(st, region) ==
    LET fetched == client_list_region_snapshot(st, region)
    IN  IF fetched.kind = "raise" THEN fetched
        ELSE
            LET snapshot == fetched.value
                states == snapshot.states[1]
                metrics == _compute_metrics(states)
                anomalies == _detect_anomalies(states)
            IN  Ok([region |-> region,
                    last_updated |-> snapshot.last_updated,
                    bounds |-> snapshot.bounds,
                    metrics |-> metrics,
                    anomalies |-> anomalies,
                    summary |-> _build_summary(region, snapshot, metrics,
                                               anomalies)])

(***************************************************************************)
(* The anomaly engine on its own: states drawn from a palette that varies  *)
(* each group of fields the rules read.                                    *)
(***************************************************************************)
IdentityStates ==
    {[BaseState EXCEPT !.callsign = c, !.icao24 = k, !.velocity = Some(281)] :
        c \in {None, Some(<<>>), Some(<<" ">>), Some(<<" ", "A">>)},
        k \in {None, Some(<<>>), Some(<<"c">>)}}

VelocityStates ==
    {[BaseState EXCEPT !.velocity = v] :
        v \in {None, Some(0), Some(280), Some(281)}}

TimingStates ==
    {[BaseState EXCEPT !.last_contact = c, !.time_position = t] :
        c \in {None, Some(0), Some(100)},
        t \in {None, Some(0), Some(54), Some(55)}}

PositionStates ==
    {[BaseState EXCEPT !.latitude = a, !.longitude = o] :
        a \in {None, Some(0), Some(5)}, o \in {None, Some(0), Some(5)}}

AltitudeStates ==
    {[BaseState EXCEPT !.geo_altitude = g, !.baro_altitude = b] :
        g \in {None, Some(0), Some(1001)}, b \in {None, Some(299), Some(300)}}

EngineStates ==
    IdentityStates \cup VelocityStates \cup TimingStates
        \cup PositionStates \cup AltitudeStates

InitEngine ==
    /\ store = [r \in RegionIds |-> NoFile]
    /\ alertsFile = NoFile
    /\ lookup = [op |-> "none"]
    /\ engineIn \in SeqUpTo(EngineStates, MaxStates)
    /\ engineOut = None
    /\ CompactIdle
    /\ PipeIdle

\* _detect_anomalies(engineIn); per_state keeps what each state appended
DetectAnomalies ==
    /\ engineOut' = Some([op |-> "_detect_anomalies",
                          per_state |-> [i \in 1..Len(engineIn) |->
                                            StateAnomalies(engineIn[i])],
                          anomalies |-> _detect_anomalies(engineIn)])
    /\ UNCHANGED <<storeVars, serverVars, engineIn, compactVars, pipeVars>>

\* _compute_metrics(pd.DataFrame(engineIn))
ComputeMetrics ==
    /\ engineOut' = Some([op |-> "_compute_metrics",
                          metrics |-> _compute_metrics(engineIn)])
    /\ UNCHANGED <<storeVars, serverVars, engineIn, compactVars, pipeVars>>

NextEngine == DetectAnomalies \/ ComputeMetrics

SpecEngine == InitEngine /\ [][NextEngine]_vars

(***************************************************************************)
(* Claims about the anomaly engine.                                        *)
(***************************************************************************)
Detected == engineOut # None /\ engineOut[1].op = "_detect_anomalies"

\* the issues the engine recorded for state i
IssuesOf(i) ==
    {engineOut[1].per_state[i][k].issue :
        k \in 1..Len(engineOut[1].per_state[i])}

\* the record of issue `issue` among those of state i
RecordOf(i, issue) ==
    CHOOSE a \in {engineOut[1].per_state[i][k] :
                    k \in 1..Len(engineOut[1].per_state[i])} : a.issue = issue

\* the fallback chain as stated: trimmed callsign, else icao24, else UNKNOWN
FallbackCallsign(state) ==
    IF state.callsign # None /\ Trimmed(state.callsign[1]) # <<>>
    THEN Trimmed(state.callsign[1])
    ELSE IF state.icao24 # None /\ state.icao24[1] # <<>>
    THEN state.icao24[1]
    ELSE UNKNOWN

\* C8: every anomaly record carries the fallback chain's callsign, and a
\* "High velocity" record is emitted exactly for a present velocity > 280.
C8_CallsignFallbackChain ==
    Detected =>
        \A i \in 1..Len(engineIn) :
            /\ \A k \in 1..Len(engineOut[1].per_state[i]) :
                  engineOut[1].per_state[i][k].callsign
                      = FallbackCallsign(engineIn[i])
            /\ ("High velocity" \in IssuesOf(i))
                  <=> (engineIn[i].velocity # None
                         /\ engineIn[i].velocity[1] > 280)

\* C9: "Stale telemetry" is emitted exactly when last_contact and
\* time_position are both present (0 included) and differ by more than 45,
\* and its value is the difference.
C9_StaleTelemetryIff ==
    Detected =>
        \A i \in 1..Len(engineIn) :
            LET s == engineIn[i]
                stale == /\ s.last_contact # None
                         /\ s.time_position # None
                         /\ s.last_contact[1] - s.time_position[1] > 45
            IN  /\ ("Stale telemetry" \in IssuesOf(i)) <=> stale
                /\ stale => RecordOf(i, "Stale telemetry").value
                               = s.last_contact[1] - s.time_position[1]

\* C10: "Missing coordinates" (value "n/a") is emitted exactly when the
\* latitude or the longitude is missing; a present 0 is a coordinate.
C10_MissingCoordinatesIff ==
    Detected =>
        \A i \in 1..Len(engineIn) :
            LET s == engineIn[i]
                missing == s.latitude = None \/ s.longitude = None
            IN  /\ ("Missing coordinates" \in IssuesOf(i)) <=> missing
                /\ missing => RecordOf(i, "Missing coordinates").value = "n/a"

Measured == engineOut # None /\ engineOut[1].op = "_compute_metrics"

\* the values of a field over the states where it is present
RECURSIVE PresentValues(_, _)
PresentValues(i, field) ==
    IF i = 0 THEN <<>>
    ELSE PresentValues(i - 1, field)
            \o (IF engineIn[i][field] # None THEN engineIn[i][field] ELSE <<>>)

\* h hundredths is the mean of xs to the nearest hundredth
IsMeanOf(h, xs) ==
    LET n == Len(xs)
        off == 100 * Sum(xs) - h * n
    IN  2 * off <= n /\ 2 * (-off) <= n

\* what the claim expects of an average: null when the field is present in
\* no state, the mean of the present values otherwise
AverageAsClaimed(avg, field) ==
    LET xs == PresentValues(Len(engineIn), field)
    IN  IF xs = <<>> THEN avg = None
        ELSE /\ avg # None
             /\ avg[1].kind = "num"
             /\ IsMeanOf(avg[1].hundredths, xs)

\* C11: the metrics count every state, and each average is null exactly
\* when its field is present in no state (never zero, never a non-null
\* placeholder) and is otherwise the mean over the states where it is
\* present.
C11_MetricsNullWhenAbsent ==
    Measured =>
        LET metrics == engineOut[1].metrics
        IN  /\ metrics.aircraft = Len(engineIn)
            /\ AverageAsClaimed(metrics.avg_altitude, "geo_altitude")
            /\ AverageAsClaimed(metrics.avg_velocity, "velocity")

(***************************************************************************)
(* agents/traveler_agent.py                                                *)
(***************************************************************************)
\* the altitude both helpers read: state.get("geo_altitude") or
\* state.get("baro_altitude")
AltitudeOf(state) ==
    IF TruthyNum(state.geo_altitude) THEN state.geo_altitude
    ELSE state.baro_altitude

\* TravelerSupportAgent._derive_status of a non-empty state
_derive_status(state) ==
    IF TruthyBool(state.on_ground) THEN [text |-> "on the ground"]
    ELSE IF TruthyNum(AltitudeOf(state)) /\ TruthyNum(state.velocity)
    THEN [text |-> "cruising", altitude |-> AltitudeOf(state)[1],
          velocity |-> state.velocity[1]]
    ELSE IF TruthyNum(AltitudeOf(state))
    THEN [text |-> "altitude", altitude |-> AltitudeOf(state)[1]]
    ELSE [text |-> "partial"]

\* "Flight not found in latest snapshots. Please verify the callsign."
NotFoundStatus == [text |-> "not found"]

\* the dict returned by the except branch; state None is the dict {}
NotFoundContext ==
    [region |-> None, last_updated |-> None, state |-> None,
     status |-> NotFoundStatus]

\* the same handler without the 404 branch: every error is re-raised
get_flight_context_reraising(st, callsign) ==
    LET payload == client_find_by_callsign(st, callsign)
    IN  IF payload.kind = "raise" THEN payload
        ELSE Ok([region |-> Some(payload.value.region),
                 last_updated |-> payload.value.snapshot.last_updated,
                 state |-> Some(payload.value.state),
                 status |-> _derive_status(payload.value.state)])

\* TravelerSupportAgent.get_flight_context
get_flight_context(st, callsign) ==
    LET payload == client_find_by_callsign(st, callsign)
    IN  IF payload.kind = "raise"
        THEN IF payload.status = 404 THEN Ok(NotFoundContext) ELSE payload
        ELSE Ok([region |-> Some(payload.value.region),
                 last_updated |-> payload.value.snapshot.last_updated,
                 state |-> Some(payload.value.state),
                 status |-> _derive_status(payload.value.state)])

(***************************************************************************)
(* agents/crew_runner.py                                                   *)
(***************************************************************************)
AnomalyCap == 15
AlertCap == 10

\* xs[-n:], the last n items instead of the first
LastItems(xs, n) ==
    SubSeq(xs, IF Len(xs) < n THEN 1 ELSE Len(xs) - n + 1, Len(xs))

\* xs[:n]
Prefix(xs, n) == SubSeq(xs, 1, IF Len(xs) < n THEN Len(xs) ELSE n)

_compact_analysis(analysis, alerts) ==
    [region |-> analysis.region,
     last_updated |-> analysis.last_updated,
     metrics |-> analysis.metrics,
     summary |-> analysis.summary,
     anomalies |-> Prefix(analysis.anomalies, AnomalyCap),
     alerts |-> Prefix(alerts.alerts, AlertCap)]

\* state.get(field) of flight.get("state") or {}
StateGet(flight, field) ==
    IF flight.state = None THEN None ELSE flight.state[1][field]

_compact_flight(flight) ==
    [region |-> flight.region,
     last_updated |-> flight.last_updated,
     status |-> flight.status,
     callsign |-> StateGet(flight, "callsign"),
     icao24 |-> StateGet(flight, "icao24"),
     latitude |-> StateGet(flight, "latitude"),
     longitude |-> StateGet(flight, "longitude"),
     altitude |-> IF flight.state = None THEN None
                  ELSE AltitudeOf(flight.state[1]),
     velocity |-> StateGet(flight, "velocity"),
     on_ground |-> StateGet(flight, "on_ground")]

\* d[k] = v for every k of upd, on a copy of d
Extend(d, upd) ==
    [k \in DOMAIN d \cup DOMAIN upd |-> IF k \in DOMAIN upd THEN upd[k] ELSE d[k]]

\* d.get(k): None when the key is missing, else the value (kept boxed, so
\* that "" and None stay apart)
DictGet(d, k) == IF k \in DOMAIN d THEN Some(d[k]) ELSE None

\* state.get(k, "")
DictGetStr(d, k) == IF k \in DOMAIN d THEN d[k] ELSE <<>>

\* the inputs of OPS_PROMPT | llm | parser
OpsPrompt(state, compact) ==
    [region |-> state["region"],
     question |-> DictGetStr(state, "question"),
     analysis_json |-> compact,
     alerts_json |-> [alerts |-> compact.alerts]]

\* the inputs of TRAVELER_PROMPT | llm | parser
TravelerPrompt(state, compact_flight) ==
    [callsign |-> state["callsign"],
     question |-> DictGetStr(state, "question"),
     ops_report |-> DictGetStr(state, "ops_report"),
     flight_json |-> compact_flight]

\* what chain.invoke can do: raise, or return a str.  The reasoning service
\* is opaque; a non-empty text is kept as one token naming the stage and
\* the prompt it answers, an empty completion is "".
ReasoningModes == {"text", "empty", "raise"}

Completion(stage, prompt, mode) ==
    IF mode = "empty" THEN <<>> ELSE <<[by |-> stage, prompt |-> prompt]>>

\* the keys the ops node sets on its copy of the state
OpsUpdate(report, analysis, alerts) ==
    [ops_report |-> report, ops_structured |-> analysis, alerts |-> alerts,
     last_updated |-> analysis.last_updated]

\* the keys the traveler node sets on its copy of the state
TravelerUpdate(reply, compact_flight) ==
    [traveler_response |-> reply, flight_context |-> compact_flight]

\* a node that rebuilds its output and forgets a key of its input
NodeOutputLosingKey(state, upd) ==
    [k \in (DOMAIN state \cup DOMAIN upd) \ {"question"} |->
        IF k \in DOMAIN upd THEN upd[k] ELSE state[k]]

\* next_state = dict(state); next_state[k] = v ...; return next_state
NodeOutput(state, upd) == Extend(state, upd)

\* a "copy" that is the same object: next_state = state
SameObject(h, ref, i) == ref

\* the reference of a newly allocated object (named after the run that
\* allocates it and the number of objects it allocated before)
NewRef(h, i) == <<i, Cardinality({r \in DOMAIN h : r[1] = i}) + 1>>

\* dict(state): the reference of a new object
DictCopy(h, ref, i) == NewRef(h, i)

\* a graph whose ops node leads straight to END
build_graph_ops_only ==
    [entry |-> "ops", edges |-> [ops |-> "END", traveler |-> "END"]]

\* build_graph: entry point "ops", edges ops -> traveler -> END
build_graph ==
    [entry |-> "ops", edges |-> [ops |-> "traveler", traveler |-> "END"]]

\* the first blocking call of a node
FirstPhase(n) ==
    CASE n = "ops" -> "analyze"
      [] n = "traveler" -> "lookup"
      [] OTHER -> "return"


(***************************************************************************)
(* The pipeline as a state machine.  Each run of run_crewai moves through  *)
(* the compiled graph; an action is the code between two blocking calls    *)
(* (HTTP to the MCP server, the reasoning service), so the runs interleave *)
(* at those calls.                                                         *)
(***************************************************************************)
StateA == [BaseState EXCEPT !.callsign = Some(<<"a", " ">>)]

PipeContents == {NoFile, BadJson, EmptyObject, Snapshot(<<StateA>>)}

AlertsOk ==
    [kind |-> "object", last_updated |-> <<"t">>,
     alerts |-> <<[id |-> <<"1">>]>>]

AlertsContents == {NoFile, BadJson, AlertsOk}

Callsigns == {<<"A">>, <<"b">>}

Question == <<"q">>

InitPipeline ==
    /\ store \in [RegionIds -> PipeContents]
    /\ alertsFile \in AlertsContents
    /\ lookup = [op |-> "none"]
    /\ EngineIdle
    /\ CompactIdle
    /\ PipeIdle

Running(i, n, ph) == outcome[i] = "running" /\ node[i] = n /\ phase[i] = ph

\* the GraphState the node of run i was called with
StateOf(i) == heap[cur[i][1]]

Called(i, call) == calls' = [calls EXCEPT ![i] = Append(@, call)]

\* an exception leaves the node, graph.invoke and run_crewai
Raised(i) ==
    /\ outcome' = [outcome EXCEPT ![i] = "raised"]
    /\ UNCHANGED <<graph, inv, node, phase, cur, heap, locals, result,
                   trace, handed>>

\* run_crewai up to the first node: build_graph() through its lru_cache,
\* then graph.invoke({"region", "callsign", "question"}) enters the entry
\* point
Start(i, region, callsign, question) ==
    /\ outcome[i] = "idle"
    /\ LET g == IF graph = None THEN build_graph ELSE graph[1]
           input == [region |-> region, callsign |-> callsign,
                     question |-> question]
           ref == NewRef(heap, i)
       IN  /\ graph' = Some(g)
           /\ inv' = [inv EXCEPT ![i] = Some(input)]
           /\ heap' = [r \in DOMAIN heap \cup {ref} |->
                          IF r = ref THEN input ELSE heap[r]]
           /\ cur' = [cur EXCEPT ![i] = Some(ref)]
           /\ node' = [node EXCEPT ![i] = g.entry]
           /\ phase' = [phase EXCEPT ![i] = FirstPhase(g.entry)]
           /\ trace' = [trace EXCEPT ![i] =
                           <<[node |-> g.entry, ev |-> "start"]>>]
           /\ handed' = handed \cup {<<ref, input>>}
    /\ outcome' = [outcome EXCEPT ![i] = "running"]
    /\ UNCHANGED <<storeVars, serverVars, engineVars, compactVars, locals, result,
                   calls>>

\* a node returns `output`, built on dict(state), and the graph follows
\* the node's edge
FinishNode(i, n, output) ==
    LET ref == DictCopy(heap, cur[i][1], i)
        next == graph[1].edges[n]
    IN  /\ heap' = [r \in DOMAIN heap \cup {ref} |->
                       IF r = ref THEN output ELSE heap[r]]
        /\ cur' = [cur EXCEPT ![i] = Some(ref)]
        /\ node' = [node EXCEPT ![i] = next]
        /\ phase' = [phase EXCEPT ![i] = FirstPhase(next)]
        /\ locals' = [locals EXCEPT ![i] = None]
        /\ trace' = [trace EXCEPT ![i] =
                        @ \o <<[node |-> n, ev |-> "end",
                                input |-> StateOf(i), output |-> output]>>
                          \o (IF next = "END" THEN <<>>
                              ELSE <<[node |-> next, ev |-> "start"]>>)]
        /\ handed' = IF next = "END" THEN handed
                     ELSE handed \cup {<<ref, output>>}
        /\ UNCHANGED <<graph, inv, outcome, result>>

\* ops node: analysis = ops_helper.analyze_region(region)
OpsAnalyze(i) ==
    /\ Running(i, "ops", "analyze")
    /\ LET analysis == analyze_region(store, StateOf(i)["region"])
       IN  /\ Called(i, [call |-> "list_region_snapshot",
                         status |-> get_region_snapshot(
                                        store, StateOf(i)["region"]).status])
           /\ IF analysis.kind = "raise" THEN Raised(i)
              ELSE /\ locals' = [locals EXCEPT ![i] =
                                    Some([analysis |-> analysis.value])]
                   /\ phase' = [phase EXCEPT ![i] = "alerts"]
                   /\ UNCHANGED <<graph, inv, node, cur, heap, outcome,
                                  result, trace, handed>>
    /\ UNCHANGED <<storeVars, serverVars, engineVars, compactVars>>

\* ops node: alerts = client.list_alerts()
OpsAlerts(i) ==
    /\ Running(i, "ops", "alerts")
    /\ LET alerts == client_list_alerts(alertsFile)
       IN  /\ Called(i, [call |-> "list_alerts",
                         status |-> list_alerts(alertsFile).status])
           /\ IF alerts.kind = "raise" THEN Raised(i)
              ELSE /\ locals' = [locals EXCEPT ![i] =
                                    Some([analysis |-> @[1].analysis,
                                          alerts |-> alerts.value])]
                   /\ phase' = [phase EXCEPT ![i] = "reason"]
                   /\ UNCHANGED <<graph, inv, node, cur, heap, outcome,
                                  result, trace, handed>>
    /\ UNCHANGED <<storeVars, serverVars, engineVars, compactVars>>

\* ops node: compact, chain.invoke, next_state, return
OpsReason(i, mode) ==
    /\ Running(i, "ops", "reason")
    /\ LET analysis == locals[i][1].analysis
           alerts == locals[i][1].alerts
           compact == _compact_analysis(analysis, alerts)
           prompt == OpsPrompt(StateOf(i), compact)
           report == Completion("ops", prompt, mode)
       IN  /\ Called(i, [call |-> "reason", stage |-> "ops",
                         prompt |-> prompt, mode |-> mode])
           /\ IF mode = "raise" THEN Raised(i)
              ELSE FinishNode(i, "ops",
                              NodeOutput(StateOf(i),
                                         OpsUpdate(report, analysis, alerts)))
    /\ UNCHANGED <<storeVars, serverVars, engineVars, compactVars>>

\* traveler node: flight = traveler_helper.get_flight_context(callsign)
TravelerLookup(i) ==
    /\ Running(i, "traveler", "lookup")
    /\ LET flight == get_flight_context(store, StateOf(i)["callsign"])
       IN  /\ Called(i, [call |-> "find_by_callsign",
                         status |-> get_flight_by_callsign(
                                        store, StateOf(i)["callsign"]).status])
           /\ IF flight.kind = "raise" THEN Raised(i)
              ELSE /\ locals' = [locals EXCEPT ![i] =
                                    Some([flight |-> flight.value])]
                   /\ phase' = [phase EXCEPT ![i] = "reason"]
                   /\ UNCHANGED <<graph, inv, node, cur, heap, outcome,
                                  result, trace, handed>>
    /\ UNCHANGED <<storeVars, serverVars, engineVars, compactVars>>

\* traveler node: compact_flight, chain.invoke, next_state, return
TravelerReason(i, mode) ==
    /\ Running(i, "traveler", "reason")
    /\ LET compact_flight == _compact_flight(locals[i][1].flight)
           prompt == TravelerPrompt(StateOf(i), compact_flight)
           reply == Completion("traveler", prompt, mode)
       IN  /\ Called(i, [call |-> "reason", stage |-> "traveler",
                         prompt |-> prompt, mode |-> mode])
           /\ IF mode = "raise" THEN Raised(i)
              ELSE FinishNode(i, "traveler",
                              NodeOutput(StateOf(i),
                                         TravelerUpdate(reply, compact_flight)))
    /\ UNCHANGED <<storeVars, serverVars, engineVars, compactVars>>

ResultKeys ==
    {"ops_report", "traveler_response", "ops_structured", "flight_context",
     "alerts"}

\* run_crewai after graph.invoke: the five result.get(...)
Return(i) ==
    /\ Running(i, "END", "return")
    /\ result' = [result EXCEPT ![i] =
                     Some([k \in ResultKeys |-> DictGet(StateOf(i), k)])]
    /\ outcome' = [outcome EXCEPT ![i] = "returned"]
    /\ UNCHANGED <<storeVars, serverVars, engineVars, compactVars, graph, inv, node,
                   phase, cur, heap, locals, trace, handed, calls>>

Next ==
    \/ \E i \in Runs, region \in RegionIds, callsign \in Callsigns :
          Start(i, region, callsign, Question)
    \/ \E i \in Runs : OpsAnalyze(i)
    \/ \E i \in Runs : OpsAlerts(i)
    \/ \E i \in Runs, mode \in ReasoningModes : OpsReason(i, mode)
    \/ \E i \in Runs : TravelerLookup(i)
    \/ \E i \in Runs, mode \in ReasoningModes : TravelerReason(i, mode)
    \/ \E i \in Runs : Return(i)

Spec == InitPipeline /\ [][Next]_vars

(***************************************************************************)
(* Claims about the pipeline.                                              *)
(***************************************************************************)
\* the stage events of run i, without their payload
Events(i) == [k \in 1..Len(trace[i]) |-> <<trace[i][k].node, trace[i][k].ev>>]

StageOrder ==
    <<<<"ops", "start">>, <<"ops", "end">>,
      <<"traveler", "start">>, <<"traveler", "end">>>>

\* the reasoning calls run i made for `stage`
ReasonCalls(i, stage) ==
    {k \in 1..Len(calls[i]) :
        calls[i][k].call = "reason" /\ calls[i][k].stage = stage}

\* C1: the stages of a run happen in the order OPS start, OPS end,
\* TRAVELER start, TRAVELER end, each at most once and never interleaved
\* with one another; a run that returns went through all four; the traveler
\* stage starts on a state that holds the ops_report the OPS stage wrote and
\* hands exactly that text to its reasoning call; nothing runs after
\* TRAVELER.
C1_StageOrder ==
    \A i \in Runs :
        /\ Len(trace[i]) <= Len(StageOrder)
        /\ Events(i) = SubSeq(StageOrder, 1, Len(trace[i]))
        /\ outcome[i] # "idle" => Len(trace[i]) >= 1
        /\ outcome[i] = "returned" => Events(i) = StageOrder
        /\ Len(trace[i]) = Len(StageOrder) => node[i] = "END"
        /\ Len(trace[i]) >= 3 =>
              /\ ReasonCalls(i, "ops") # {}
              /\ \A k \in ReasonCalls(i, "ops") :
                    trace[i][2].output["ops_report"]
                        = Completion("ops", calls[i][k].prompt, calls[i][k].mode)
              /\ node[i] = "traveler" =>
                    DictGet(StateOf(i), "ops_report")
                        = Some(trace[i][2].output["ops_report"])
        /\ Cardinality(ReasonCalls(i, "ops")) <= 1
        /\ Cardinality(ReasonCalls(i, "traveler")) <= 1
        /\ \A k \in ReasonCalls(i, "traveler") :
              /\ Len(trace[i]) >= 3
              /\ calls[i][k].prompt.ops_report = trace[i][2].output["ops_report"]

\* a run that returned after a non-empty handoff reached the traveler stage
C1_Witness ==
    \E i \in Runs :
        /\ outcome[i] = "returned"
        /\ Events(i) = StageOrder
        /\ \E k \in ReasonCalls(i, "traveler") :
              /\ calls[i][k].prompt.ops_report # <<>>
              /\ calls[i][k].prompt.ops_report = result[i][1]["ops_report"][1]

InputKeys == {"region", "callsign", "question"}
OpsKeys == {"ops_report", "ops_structured", "alerts", "last_updated"}
TravelerKeys == {"traveler_response", "flight_context"}
OwnKeys(n) == IF n = "ops" THEN OpsKeys ELSE TravelerKeys

\* the "end" events of run i
Ends(i) == {k \in 1..Len(trace[i]) : trace[i][k].ev = "end"}

\* C2: the output state of each stage is its input state plus that stage's
\* own keys, every input key kept with its value; the traveler stage's
\* input is the OPS stage's output, so after TRAVELER the seven keys
\* present after OPS are all there, unchanged.
C2_MonotonicState ==
    \A i \in Runs :
        /\ \A k \in Ends(i) :
              LET e == trace[i][k]
              IN  /\ DOMAIN e.output = DOMAIN e.input \cup OwnKeys(e.node)
                  /\ DOMAIN e.input \cap OwnKeys(e.node) = {}
                  /\ \A key \in DOMAIN e.input : e.output[key] = e.input[key]
        /\ Len(trace[i]) >= 2 =>
              DOMAIN trace[i][2].output = InputKeys \cup OpsKeys
        /\ Len(trace[i]) = 4 =>
              /\ trace[i][4].input = trace[i][2].output
              /\ \A key \in InputKeys \cup OpsKeys :
                    /\ key \in DOMAIN StateOf(i)
                    /\ StateOf(i)[key] = trace[i][2].output[key]

\* a run whose traveler stage has returned its state
C2_Witness ==
    \E i \in Runs :
        /\ Len(trace[i]) = 4
        /\ trace[i][4].node = "traveler"
        /\ StateOf(i) = trace[i][4].output
        /\ StateOf(i)["ops_report"] # <<>>

\* the callsign lookups run i made
LookupCalls(i) ==
    {k \in 1..Len(calls[i]) : calls[i][k].call = "find_by_callsign"}

\* C3: a lookup answered "not found" (404) does not abort the run: the
\* stage goes on to its reasoning call with a flight context whose status
\* says the callsign was not found, and the run returns unless that call
\* itself fails; a lookup answered with any other error aborts the run
\* there, with no result.
C3_NotFoundIsNotFatal ==
    \A i \in Runs : \A k \in LookupCalls(i) :
        /\ calls[i][k].status = 404 =>
              /\ k = Len(calls[i]) =>
                    /\ Running(i, "traveler", "reason")
                    /\ locals[i][1].flight.status = NotFoundStatus
              /\ k < Len(calls[i]) =>
                    /\ k + 1 = Len(calls[i])
                    /\ calls[i][k + 1].call = "reason"
                    /\ calls[i][k + 1].stage = "traveler"
                    /\ calls[i][k + 1].prompt.flight_json.status = NotFoundStatus
                    /\ (outcome[i] = "raised") <=> (calls[i][k + 1].mode = "raise")
                    /\ outcome[i] = "returned" =>
                          result[i][1]["flight_context"][1].status = NotFoundStatus
        /\ calls[i][k].status \notin {200, 404} =>
              /\ k = Len(calls[i])
              /\ outcome[i] = "raised"
              /\ result[i] = None
              /\ ReasonCalls(i, "traveler") = {}

\* a run that returned although its callsign was found nowhere
C3_Witness ==
    \E i \in Runs :
        /\ outcome[i] = "returned"
        /\ \E k \in LookupCalls(i) : calls[i][k].status = 404
        /\ result[i][1]["flight_context"][1].status = NotFoundStatus
        /\ result[i][1]["traveler_response"][1] # <<>>

\* C4: a run that returns holds all five keys, each with the non-empty
\* value its stage wrote; a run one of whose reasoning calls failed or
\* yielded no output does not return, and has no result.
C4_AllOrNothing ==
    \A i \in Runs :
        /\ outcome[i] = "returned" =>
              /\ \A key \in ResultKeys :
                    /\ result[i][1][key] # None
                    /\ result[i][1][key][1] = StateOf(i)[key]
              /\ result[i][1]["ops_report"][1] # <<>>
              /\ result[i][1]["traveler_response"][1] # <<>>
        /\ outcome[i] # "returned" => result[i] = None
        /\ (\E k \in 1..Len(calls[i]) :
               /\ calls[i][k].call = "reason"
               /\ calls[i][k].mode \in {"raise", "empty"})
              => outcome[i] # "returned"

\* what run_crewai gives, alone, for `input` when the reasoning service
\* behaves as m1 (ops call) and m2 (traveler call)
SoloOps(input, m1) ==
    LET analysis == analyze_region(store, input["region"])
        alerts == client_list_alerts(alertsFile)
    IN  IF analysis.kind = "raise" \/ alerts.kind = "raise" \/ m1 = "raise"
        THEN Raise(0)
        ELSE Ok(Extend(input,
                       OpsUpdate(Completion("ops",
                                            OpsPrompt(input,
                                                      _compact_analysis(
                                                          analysis.value,
                                                          alerts.value)),
                                            m1),
                                 analysis.value, alerts.value)))

SoloTraveler(state, m2) ==
    LET flight == get_flight_context(store, state["callsign"])
    IN  IF flight.kind = "raise" \/ m2 = "raise" THEN Raise(0)
        ELSE LET compact_flight == _compact_flight(flight.value)
             IN  Ok(Extend(state,
                           TravelerUpdate(
                               Completion("traveler",
                                          TravelerPrompt(state, compact_flight),
                                          m2),
                               compact_flight)))

SoloRun(input, m1, m2) ==
    LET afterOps == SoloOps(input, m1)
    IN  IF afterOps.kind = "raise" THEN afterOps
        ELSE LET afterTraveler == SoloTraveler(afterOps.value, m2)
             IN  IF afterTraveler.kind = "raise" THEN afterTraveler
                 ELSE Ok([k \in ResultKeys |-> DictGet(afterTraveler.value, k)])

\* how the reasoning service behaved for run i at `stage` ("text" if the
\* run never got to ask)
ModeOf(i, stage) ==
    IF ReasonCalls(i, stage) = {} THEN "text"
    ELSE calls[i][CHOOSE k \in ReasonCalls(i, stage) : TRUE].mode

\* the references run i holds or was handed
RefsOf(i) == {r \in DOMAIN heap : r[1] = i}

\* C5: in every interleaving of two runs, an object given to a stage as its
\* state is never written afterwards, the runs hold different state
\* objects, the cached graph is the one build_graph made, and a finished
\* run has the outcome it has alone with the same store and the same
\* reasoning behaviour.
C5_RunsDoNotInterfere ==
    /\ \A h \in handed : heap[h[1]] = h[2]
    /\ \A i \in Runs : cur[i] # None => cur[i][1] \in RefsOf(i)
    /\ \A i, j \in Runs :
          (i # j /\ cur[i] # None /\ cur[j] # None) => cur[i] # cur[j]
    /\ \A i \in Runs : outcome[i] # "idle" =>
          /\ graph = Some(build_graph)
          /\ heap[<<i, 1>>] = inv[i][1]
    /\ \A i \in Runs :
          LET solo == SoloRun(inv[i][1], ModeOf(i, "ops"), ModeOf(i, "traveler"))
          IN  /\ outcome[i] = "returned" => solo = Ok(result[i][1])
              /\ outcome[i] = "raised" => solo.kind = "raise"

\* both runs returned, on different arguments, with different results
C5_Witness ==
    /\ outcome[1] = "returned"
    /\ outcome[2] = "returned"
    /\ inv[1] # inv[2]
    /\ result[1][1]["flight_context"] # result[2][1]["flight_context"]
    /\ Cardinality(DOMAIN heap) = 6

(***************************************************************************)
(* The two compaction helpers on their own, on analyses and alert sets     *)
(* longer than the caps and on flight contexts of every altitude case.     *)
(***************************************************************************)
MaxAnomalies == 17  \* anomalies of the largest analysis compacted
MaxAlerts == 12     \* alerts of the largest alert set compacted

CompactRegion == <<"r", "2">>

\* n states over the velocity limit, each giving one anomaly; the values
\* rise along the list or fall along it
FastStates(n, order) ==
    [k \in 1..n |->
        [BaseState EXCEPT !.velocity =
            Some(HighVelocityLimit
                    + (IF order = "rising" THEN k ELSE MaxAnomalies + 1 - k))]]

\* what ops_helper.analyze_region returns for a snapshot of those states
AnalysisOf(n, order) ==
    analyze_region([r \in RegionIds |->
                       IF r = CompactRegion THEN Snapshot(FastStates(n, order))
                       ELSE NoFile],
                   CompactRegion).value

\* what client.list_alerts returns for an alerts file of m alerts
AlertsOf(m) ==
    client_list_alerts([kind |-> "object", last_updated |-> <<"t">>,
                        alerts |-> [k \in 1..m |-> [id |-> <<k>>]]]).value

\* what traveler_helper.get_flight_context returns for a flight found in
\* CompactRegion with this state
ContextOf(state) ==
    get_flight_context([r \in RegionIds |->
                           IF r = CompactRegion THEN Snapshot(<<state>>)
                           ELSE NoFile],
                       state.callsign[1]).value

FlightContexts == {NotFoundContext} \cup {ContextOf(s) : s \in AltitudeStates}

InitCompactor ==
    /\ store = [r \in RegionIds |-> NoFile]
    /\ alertsFile = NoFile
    /\ lookup = [op |-> "none"]
    /\ EngineIdle
    /\ PipeIdle
    /\ compactOut = None
    /\ \/ \E n \in 0..MaxAnomalies, m \in 0..MaxAlerts,
            order \in {"rising", "falling"} :
             compactIn = Some([kind |-> "analysis",
                               analysis |-> AnalysisOf(n, order),
                               alerts |-> AlertsOf(m)])
       \/ \E flight \in FlightContexts :
             compactIn = Some([kind |-> "flight", flight |-> flight])

\* the ops node from its compaction on: compact, chain.invoke, next_state
CompactAnalysis ==
    /\ compactIn[1].kind = "analysis"
    /\ LET analysis == compactIn[1].analysis
           alerts == compactIn[1].alerts
           compact == _compact_analysis(analysis, alerts)
           state == [region |-> analysis.region]
           prompt == OpsPrompt(state, compact)
           report == Completion("ops", prompt, "text")
       IN  compactOut' = Some([op |-> "_compact_analysis",
                               compact |-> compact,
                               prompt |-> prompt,
                               update |-> OpsUpdate(report, analysis, alerts)])
    /\ UNCHANGED <<storeVars, serverVars, engineVars, compactIn, pipeVars>>

\* the traveler node's compaction: compact_flight = _compact_flight(flight)
CompactFlight ==
    /\ compactIn[1].kind = "flight"
    /\ compactOut' = Some([op |-> "_compact_flight",
                           compact |-> _compact_flight(compactIn[1].flight)])
    /\ UNCHANGED <<storeVars, serverVars, engineVars, compactIn, pipeVars>>

NextCompactor == CompactAnalysis \/ CompactFlight

SpecCompactor == InitCompactor /\ [][NextCompactor]_vars

(***************************************************************************)
(* Claims about compaction.                                                *)
(***************************************************************************)
FlightCompacted == compactOut # None /\ compactOut[1].op = "_compact_flight"

\* C12: the altitude of a compacted flight is the state's geometric
\* altitude whenever that is present, 0 included, and the barometric
\* altitude only when the geometric altitude is absent.
C12_GeometricAltitudeFirst ==
    FlightCompacted =>
        LET flight == compactIn[1].flight
            altitude == compactOut[1].compact.altitude
        IN  flight.state # None =>
                LET s == flight.state[1]
                IN  /\ s.geo_altitude # None => altitude = s.geo_altitude
                    /\ s.geo_altitude = None => altitude = s.baro_altitude

AnalysisCompacted ==
    compactOut # None /\ compactOut[1].op = "_compact_analysis"

Smaller(a, b) == IF a < b THEN a ELSE b

\* out holds exactly the first Smaller(Len(given), cap) items of given, in
\* the order of given
IsFirstItems(out, given, cap) ==
    /\ Len(out) = Smaller(Len(given), cap)
    /\ \A k \in 1..Len(out) : out[k] = given[k]

\* C13: the compacted payload holds exactly the first min(n, 15) anomalies
\* and the first min(m, 10) alerts, in their original order, and the
\* analysis and the alerts the node keeps (ops_structured, alerts) are the
\* ones passed in, uncompacted.
C13_TruncationIsStablePrefix ==
    AnalysisCompacted =>
        LET analysis == compactIn[1].analysis
            alerts == compactIn[1].alerts
            out == compactOut[1]
        IN  /\ IsFirstItems(out.compact.anomalies, analysis.anomalies, 15)
            /\ IsFirstItems(out.compact.alerts, alerts.alerts, 10)
            /\ IsFirstItems(out.prompt.analysis_json.anomalies,
                            analysis.anomalies, 15)
            /\ IsFirstItems(out.prompt.alerts_json.alerts, alerts.alerts, 10)
            /\ out.update.ops_structured = analysis
            /\ out.update.alerts = alerts

\* an analysis of more than 15 anomalies whose values fall along the list
\* and an alert set of more than 10 alerts have been compacted
C13_Witness ==
    /\ AnalysisCompacted
    /\ Len(compactIn[1].analysis.anomalies) > 15
    /\ Len(compactIn[1].alerts.alerts) > 10
    /\ compactIn[1].analysis.anomalies[1].value
          > compactIn[1].analysis.anomalies[2].value
    /\ Len(compactOut[1].compact.anomalies) = 15
    /\ Len(compactOut[1].compact.alerts) = 10
    /\ Len(compactOut[1].update.ops_structured.anomalies) > 15

====
